---- MODULE Spec2Model ----
(***************************************************************************)
(* Concurrent proxy validator of create_configs_json.py:                   *)
(* build_proxies_from_content (orchestrator, main thread), the worker      *)
(* threads of its ThreadPoolExecutor running is_xray_config_valid (one     *)
(* trial each), the engine processes the trials start, and the probe loop  *)
(* of _test_connectivity.                                                  *)
(***************************************************************************)
EXTENDS Integers, Sequences, FiniteSets, TLC

VARIABLES
    lines,            \* content.strip().splitlines(): one kind per line
    TEMPLATE,         \* the module-level engine template
    xray_exists,      \* os.path.isfile(xray_path)
    pc,               \* position of the main thread in build_proxies_from_content
    tasks_to_process, \* list of {'config', 'line', 'index'}
    max_workers,
    batch_num,
    submit_i,         \* position of the submit loop in tasks_to_process
    batch_completed,
    trial,            \* per task: the future and the trial that runs it
    proxies,          \* the result list
    built_config,     \* what build_config returns
    inverted,         \* some future was handled after one of a later line
    test_urls,        \* _test_connectivity alone: what each URL answers
    url_i,            \* _test_connectivity alone: loop position
    successful_tests, \* _test_connectivity alone
    is_valid          \* _test_connectivity alone: "idle", "running", "True", "False", "raise"

orchVars == <<lines, TEMPLATE, xray_exists, pc, tasks_to_process, max_workers,
              batch_num, submit_i, batch_completed, trial, proxies, built_config,
              inverted>>
probeVars == <<test_urls, url_i, successful_tests, is_valid>>
vars == <<orchVars, probeVars>>

----------------------------------------------------------------------------
(* Bounds of the model *)

MaxLines == 3        \* longest input, in lines
MaxCpu == 2          \* largest os.cpu_count() tried
MaxUrls == 3         \* longest test_urls list given to _test_connectivity alone
MaxInbounds == 3     \* most inbounds of a template.json tried
MaxOutbounds == 2    \* most outbounds of a template.json tried
MaxEntries == 2      \* longest list of metric entries and of proxies tried

(* Program constants *)

WorkerCap == 8       \* min(8, ...)
BatchFactor == 2     \* batch_size = max_workers * 2
NumDefaultUrls == 3  \* the default test_urls list

NoPort == 0          \* a trial that holds no port

Min(a, b) == IF a < b THEN a ELSE b
Max(a, b) == IF a > b THEN a ELSE b

----------------------------------------------------------------------------
(* Tags: "proxy{n}" as a string of characters, and the sort key read back  *)
(* from it.                                                                *)

DigitChar == <<"0", "1", "2", "3", "4", "5", "6", "7", "8", "9">>
ProxyWord == <<"p", "r", "o", "x", "y">>

RECURSIVE IntToStr(_)
IntToStr(n) ==
    IF n < 10 THEN <<DigitChar[n + 1]>>
    ELSE IntToStr(n \div 10) \o <<DigitChar[(n % 10) + 1]>>

CharVal(c) == CHOOSE d \in 0..9 : DigitChar[d + 1] = c

RECURSIVE StrToInt(_)
StrToInt(s) ==
    IF Len(s) = 1 THEN CharVal(s[1])
    ELSE 10 * StrToInt(SubSeq(s, 1, Len(s) - 1)) + CharVal(s[Len(s)])

StartsWith(s, w) == Len(s) >= Len(w) /\ SubSeq(s, 1, Len(w)) = w

RECURSIVE Replace(_, _)
Replace(s, w) ==       \* s.replace(w, '')
    IF s = <<>> THEN <<>>
    ELSE IF StartsWith(s, w) THEN Replace(SubSeq(s, Len(w) + 1, Len(s)), w)
    ELSE <<s[1]>> \o Replace(Tail(s), w)

MakeTag(index) == ProxyWord \o IntToStr(index)       \* f"proxy{index}"
SortKey(p) == StrToInt(Replace(p.tag, ProxyWord))    \* int(p['tag'].replace('proxy', ''))

RECURSIVE InsertByKey(_, _)
InsertByKey(sorted, p) ==
    IF sorted = <<>> THEN <<p>>
    ELSE IF SortKey(p) < SortKey(sorted[1]) THEN <<p>> \o sorted
    ELSE <<sorted[1]>> \o InsertByKey(Tail(sorted), p)

RECURSIVE SortProxies(_)
SortProxies(ps) ==     \* list.sort(key=...): stable, ascending
    IF ps = <<>> THEN <<>>
    ELSE InsertByKey(SortProxies(SubSeq(ps, 1, Len(ps) - 1)), ps[Len(ps)])

----------------------------------------------------------------------------
(* Inputs *)

\* A line is blank, is a descriptor the translator rejects ("bad"), or
\* translates to a config: "ok" (one outbound) or "noout" (no outbound).
LineKinds == {"blank", "bad", "ok", "noout"}

RECURSIVE SeqsUpTo(_, _)
SeqsUpTo(S, n) ==
    IF n = 0 THEN {<<>>}
    ELSE LET shorter == SeqsUpTo(S, n - 1)
         IN  shorter \cup {Append(s, x) : s \in {t \in shorter : Len(t) = n - 1}, x \in S}

\* content.strip() leaves no blank line at either end
Contents ==
    {ls \in SeqsUpTo(LineKinds, MaxLines) :
        ls # <<>> => (ls[1] # "blank" /\ ls[Len(ls)] # "blank")}

TemplateHttp ==
    [inbounds  |-> <<[protocol |-> "socks", port |-> 10808],
                     [protocol |-> "http", port |-> 10809]>>,
     outbounds |-> <<[server |-> 0, tag |-> <<"d", "i", "r", "e", "c", "t">>],
                     [server |-> 0, tag |-> <<"b", "l", "o", "c", "k">>]>>]

TemplateNoHttp ==
    [inbounds  |-> <<[protocol |-> "socks", port |-> 10808]>>,
     outbounds |-> TemplateHttp.outbounds]

Templates == {TemplateHttp, TemplateNoHttp}

\* template.json at large: any inbounds and outbounds, and a field of its own
Inbounds == [protocol : {"socks", "http"}, port : {10808, 10809}]
Outbounds == {TemplateHttp.outbounds[n] : n \in DOMAIN TemplateHttp.outbounds}
AnyTemplates ==
    {[inbounds |-> ib, outbounds |-> ob, routing |-> r] :
        ib \in SeqsUpTo(Inbounds, MaxInbounds),
        ob \in SeqsUpTo(Outbounds, MaxOutbounds),
        r \in {"AsIs", "IPIfNonMatch"}}

\* json.loads(generateConfig(line)) for the line at position i
Translate(kind, i) ==
    CASE kind = "ok"    -> [outbounds |-> <<[server |-> i, tag |-> ProxyWord]>>]
      [] kind = "noout" -> [outbounds |-> <<>>]

RECURSIVE ParseLines(_, _)
ParseLines(ls, i) ==   \* the ingestion loop, from position i (0-based) on
    IF i >= Len(ls) THEN <<>>
    ELSE LET kind == ls[i + 1]
         IN  IF kind = "blank" \/ kind = "bad"
             THEN ParseLines(ls, i + 1)
             ELSE <<[config |-> Translate(kind, i + 1), line |-> i + 1, index |-> i + 1]>>
                  \o ParseLines(ls, i + 1)

NoConfig == [inbounds |-> <<>>, outbounds |-> <<>>]

\* build_config has not returned
NoBuild == [remarks |-> "", inbounds |-> <<>>, outbounds |-> <<>>]

\* The future of one task and the trial that runs it:
\*   pc         "unsubmitted", "queued" (submitted, no worker yet), "startup"
\*              (engine started and configured, the worker sleeps), "termwait"
\*              (return value set, terminate() sent, the worker waits),
\*              "returned" (the future is done), "collected" (the main thread
\*              has handled it)
\*   port       the local `port` of the trial
\*   proc       the engine process: "none", "running", "listening", "exited"
\*   config_str the configuration the engine was given
\*   poll       what process.poll() found after the startup wait
\*   url        canary requests issued
\*   ret        what the worker returns: "none", "True", "False", "raise"
\*   exc        the exception the trial met, "none" if none
\*   sig        the signals cleanup has sent to the process, in order
\*   grace      process.wait(timeout=3) after terminate(): "exited" if the
\*              process did, "expired" if TimeoutExpired was raised
\*   launches   engine processes started for the trial
\*   bind       "failed" if the engine could not bind its port
\*   verdict    the value of the return statement the trial left by
\*   cleanup_error  the exception cleanup met, "none" if none
\*   submits    executor.submit calls for the task; verdicts: futures handled
NewTrial ==
    [pc |-> "unsubmitted", port |-> NoPort, proc |-> "none", config_str |-> NoConfig,
     poll |-> "none", url |-> 0, ret |-> "none", exc |-> "none",
     sig |-> <<>>, grace |-> "none", launches |-> 0, bind |-> "none", verdict |-> "none",
     cleanup_error |-> "none", submits |-> 0, verdicts |-> 0]

----------------------------------------------------------------------------
(* _test_connectivity: one request, and the verdict *)

\* What opener.open(test_url) does: a response (urllib returns 2xx ones),
\* an HTTPError carrying the status, a URLError, a timeout
Responses == {[kind |-> "response", code |-> 200], [kind |-> "response", code |-> 299]}
HttpErrors == {[kind |-> "HTTPError", code |-> 300], [kind |-> "HTTPError", code |-> 500]}
Failures == {[kind |-> "URLError", code |-> 0], [kind |-> "timeout", code |-> 0]}
Answers == Responses \cup HttpErrors \cup Failures

InSuccessRange(code) == 200 <= code /\ code < 300

\* successful_tests after one more URL answered `a`
CountTest(n, a) ==
    IF a.kind \in {"response", "HTTPError"} /\ InSuccessRange(a.code) THEN n + 1 ELSE n

\* the same, every test having to pass
VerdictAll(n, total) ==
    IF total = 0 THEN "raise"
    ELSE IF n = total THEN "True" ELSE "False"

\* success_rate = successful_tests / total_tests; is_valid = successful_tests > 0
Verdict(n, total) ==
    IF total = 0 THEN "raise"
    ELSE IF n > 0 THEN "True" ELSE "False"

RECURSIVE CountTests(_)
CountTests(answers) ==     \* successful_tests after the whole loop
    IF answers = <<>> THEN 0
    ELSE CountTest(CountTests(SubSeq(answers, 1, Len(answers) - 1)), answers[Len(answers)])

\* _test_connectivity(port, test_urls, timeout), the URLs answering `answers`
TestConnectivity(answers) == Verdict(CountTests(answers), Len(answers))

----------------------------------------------------------------------------
(* build_proxies_from_content: batch arithmetic *)

CpuCounts == 0..MaxCpu      \* 0: os.cpu_count() returned None

WorkerCount(cpu) == Min(WorkerCap, Max(1, IF cpu = 0 THEN 1 ELSE cpu))

batch_size == max_workers * BatchFactor
TotalBatches(n, size) == (n + size - 1) \div size
total_batches == TotalBatches(Len(tasks_to_process), batch_size)
StartIdxOverlap(b) == b * (batch_size - 1)   \* batches one task too early
StartIdx(b) == b * batch_size
start_idx == StartIdx(batch_num)
end_idx == Min(start_idx + batch_size, Len(tasks_to_process))

TaskIds == 1..Len(tasks_to_process)

----------------------------------------------------------------------------
(* Ports and engine configuration *)

RECURSIVE FirstHttp(_, _)
FirstHttp(inbounds, i) ==   \* position of the first inbound of protocol "http", 0 if none
    IF i > Len(inbounds) THEN 0
    ELSE IF inbounds[i].protocol = "http" THEN i
    ELSE FirstHttp(inbounds, i + 1)

\* the port the engine listens on: the one its configuration names
HttpPort(cfg) ==
    LET h == FirstHttp(cfg.inbounds, 1) IN IF h = 0 THEN NoPort ELSE cfg.inbounds[h].port

Listening(p) ==
    \E j \in TaskIds : trial[j].proc = "listening" /\ HttpPort(trial[j].config_str) = p

IsPortAvailable(p) == ~Listening(p)          \* _is_port_available

\* Ports are named after the allocation that first hands them out: the one of
\* task k at submission is k, the one inside its trial is Len(tasks) + k.
\* find_free_port returns a port nothing listens on: a port no trial holds
\* (`fresh`), or one a trial holds and no engine has bound yet.
HeldPorts == {trial[j].port : j \in TaskIds} \ {NoPort}
FreePorts(fresh) == {p \in HeldPorts \cup {fresh} : ~Listening(p)}
PortNames == 1..(2 * Len(tasks_to_process))

\* the same, the loop of lines 197-202 without its break: every inbound of
\* protocol "http" gets the port
BuildConfigEveryHttp(template, p, config) ==
    [template EXCEPT
        !.inbounds  = [i \in DOMAIN template.inbounds |->
                          IF template.inbounds[i].protocol = "http"
                          THEN [template.inbounds[i] EXCEPT !.port = p]
                          ELSE template.inbounds[i]],
        !.outbounds = <<config.outbounds[1]>> \o @]

\* template = copy.deepcopy(TEMPLATE); inbound["port"] = port;
\* template["outbounds"] = [config_dict["outbounds"][0]] + template["outbounds"]
BuildConfig(template, p, config) ==
    LET h == FirstHttp(template.inbounds, 1)
    IN  [template EXCEPT !.inbounds  = [@ EXCEPT ![h].port = p],
                         !.outbounds = <<config.outbounds[1]>> \o @]

----------------------------------------------------------------------------
(* Initial states *)

ProbeIdle ==
    /\ test_urls = <<>>
    /\ url_i = 0
    /\ successful_tests = 0
    /\ is_valid = "idle"

Init ==
    /\ lines \in Contents
    /\ TEMPLATE \in Templates
    /\ xray_exists \in BOOLEAN
    /\ pc = "parse"
    /\ tasks_to_process = <<>>
    /\ max_workers = 0
    /\ batch_num = 0
    /\ submit_i = 0
    /\ batch_completed = 0
    /\ trial = <<>>
    /\ proxies = <<>>
    /\ built_config = NoBuild
    /\ inverted = FALSE
    /\ ProbeIdle

\* what a step of a worker leaves alone, the template apart
restVars == <<lines, xray_exists, pc, tasks_to_process, max_workers, batch_num,
              submit_i, batch_completed, proxies, built_config, inverted>>

\* what a step of a worker that builds no configuration, or of an engine,
\* leaves alone
mainVars == <<TEMPLATE, restVars>>

----------------------------------------------------------------------------
(* build_proxies_from_content, main thread *)

\* the list as returned, had the sort of line 399 been left out
FinalOrderUnsorted(ps) == ps

\* the sort of line 399
FinalOrder(ps) == SortProxies(ps)

\* lines 325-353: ingestion, worker count, batch count
Parse(cpu) ==
    /\ pc = "parse"
    /\ LET tasks == ParseLines(lines, 0)
           workers == WorkerCount(cpu)
       IN  /\ tasks_to_process' = tasks
           /\ max_workers' = workers
           /\ trial' = [k \in 1..Len(tasks) |-> NewTrial]
           /\ IF TotalBatches(Len(tasks), workers * BatchFactor) = 0
              THEN /\ proxies' = FinalOrder(proxies)
                   /\ pc' = "done"
              ELSE /\ proxies' = proxies
                   /\ pc' = "submit"
    /\ batch_num' = 0
    /\ submit_i' = 0
    /\ batch_completed' = 0
    /\ UNCHANGED <<lines, TEMPLATE, built_config, xray_exists, inverted, probeVars>>

\* lines 365-369: port = find_free_port(); executor.submit(is_xray_config_valid, config, port)
SubmitTask(p) ==
    /\ pc = "submit"
    /\ submit_i < end_idx
    /\ p \in FreePorts(submit_i + 1)
    /\ LET k == submit_i + 1
       IN  trial' = [trial EXCEPT ![k] =
                        [NewTrial EXCEPT !.pc = "queued", !.port = p,
                                         !.submits = trial[k].submits + 1,
                                         !.verdicts = trial[k].verdicts]]
    /\ submit_i' = submit_i + 1
    /\ pc' = IF submit_i + 1 = end_idx THEN "collect" ELSE "submit"
    /\ batch_completed' = 0
    /\ UNCHANGED <<lines, TEMPLATE, built_config, xray_exists, tasks_to_process, max_workers,
                   batch_num, proxies, inverted, probeVars>>

\* line 366: find_free_port() raises OSError; the with block waits for the
\* submitted trials (shutdown(wait=True)) and the error leaves the function
SubmitPortError ==
    /\ pc = "submit"
    /\ submit_i < end_idx
    /\ pc' = "aborting"
    /\ UNCHANGED <<lines, TEMPLATE, built_config, xray_exists, tasks_to_process, max_workers,
                   batch_num, submit_i, batch_completed, trial, proxies, inverted, probeVars>>

AbortRaise ==
    /\ pc = "aborting"
    /\ \A k \in TaskIds : trial[k].pc \in {"unsubmitted", "returned", "collected"}
    /\ pc' = "raised"
    /\ UNCHANGED <<lines, TEMPLATE, built_config, xray_exists, tasks_to_process, max_workers,
                   batch_num, submit_i, batch_completed, trial, proxies, inverted, probeVars>>

\* proxy = task['config']["outbounds"][0]; proxy["tag"] = f"proxy{task['index']}"
TaggedProxy(task) == [task.config.outbounds[1] EXCEPT !.tag = MakeTag(task.index)]

\* the list, had the result of the future not been looked at (a config
\* without outbounds raises IndexError into the except of line 391)
CollectedUnchecked(ps, task, ret) ==
    IF task.config.outbounds = <<>> THEN ps ELSE Append(ps, TaggedProxy(task))

\* lines 379-392: the list after the future of `task` gave `ret`
Collected(ps, task, ret) ==
    IF ret = "True" THEN Append(ps, TaggedProxy(task)) ELSE ps

\* the future has been handled: what is kept of it is its result
Handled(t) ==
    [t EXCEPT !.pc = "collected", !.verdicts = @ + 1,
              !.poll = "none", !.url = 0, !.exc = "none", !.sig = <<>>,
              !.grace = "none",
              !.launches = 0, !.bind = "none", !.verdict = "none",
              !.cleanup_error = "none"]

\* the future handled now passed, and one of a later line passed before it
Inverts(ps, task, ret) ==
    ret = "True" /\ \E i \in 1..Len(ps) : ps[i].server > task.line

\* lines 373-392: one future of the batch yielded by as_completed
CollectResult(k) ==
    /\ pc = "collect"
    /\ k > start_idx /\ k <= end_idx
    /\ trial[k].pc = "returned"
    /\ trial' = [trial EXCEPT ![k] = Handled(@)]
    /\ inverted' = (inverted \/ Inverts(proxies, tasks_to_process[k], trial[k].ret))
    /\ batch_completed' = batch_completed + 1
    /\ proxies' = Collected(proxies, tasks_to_process[k], trial[k].ret)
    /\ UNCHANGED <<lines, TEMPLATE, built_config, xray_exists, pc, tasks_to_process, max_workers,
                   batch_num, submit_i, probeVars>>

\* the same, a pause after the last batch as well
PauseAfterEvery(b, total) == b < total

\* line 395: batch b of `total` is followed by a pause
PauseAfter(b, total) == b < total - 1

\* line 355: range(total_batches) has a batch after b
MoreBatches(b, total) == b + 1 < total

\* lines 355-358 and 398-402: the next batch, or the sort and the return
LoopOn ==
    IF MoreBatches(batch_num, total_batches)
    THEN /\ batch_num' = batch_num + 1
         /\ submit_i' = StartIdx(batch_num + 1)
         /\ pc' = "submit"
         /\ proxies' = proxies
    ELSE /\ pc' = "done"
         /\ proxies' = FinalOrder(proxies)
         /\ UNCHANGED <<batch_num, submit_i>>

\* lines 393-396: as_completed is exhausted; the pause, or straight on
EndBatch ==
    /\ pc = "collect"
    /\ batch_completed = end_idx - start_idx
    /\ IF PauseAfter(batch_num, total_batches)
       THEN /\ pc' = "sleep"
            /\ UNCHANGED <<batch_num, submit_i, proxies>>
       ELSE LoopOn
    /\ UNCHANGED <<lines, TEMPLATE, built_config, xray_exists, tasks_to_process, max_workers,
                   batch_completed, trial, inverted, probeVars>>

\* line 396: time.sleep(0.5) is over
BatchPause ==
    /\ pc = "sleep"
    /\ LoopOn
    /\ UNCHANGED <<lines, TEMPLATE, built_config, xray_exists, tasks_to_process, max_workers,
                   batch_completed, trial, inverted, probeVars>>

----------------------------------------------------------------------------
(* The shared template and build_config_json_from_proxies *)

\* the module's TEMPLATE after a function has built `built` from it, had the
\* function built it in TEMPLATE itself
TemplateAliased(shared, built) == built

\* lines 193 and 405: template = copy.deepcopy(TEMPLATE); what the function
\* builds it builds in the copy, the module's TEMPLATE is as it was
TemplateAfterCopy(shared, built) == shared

Names == {"all", "mix"}    \* the `name` build_config is called with

\* lines 405-408: template["remarks"] = name; template["outbounds"][:0] = proxies
ConfigJson(template, name, ps) ==
    ("remarks" :> name) @@ [template EXCEPT !.outbounds = ps \o @]

\* lines 410-412, build_config: build_proxies_from_content has returned and
\* build_config_json_from_proxies builds the configuration of the list
BuildConfigJson(name) ==
    /\ pc = "done"
    /\ pc' = "built"
    /\ built_config' = ConfigJson(TEMPLATE, name, proxies)
    /\ TEMPLATE' = TemplateAfterCopy(TEMPLATE, ConfigJson(TEMPLATE, name, proxies))
    /\ UNCHANGED <<lines, xray_exists, tasks_to_process, max_workers, batch_num,
                   submit_i, batch_completed, trial, proxies, inverted, probeVars>>

----------------------------------------------------------------------------
(* is_xray_config_valid, run by a worker thread of the executor *)

Executing(k) == trial[k].pc \in {"startup", "termwait"}

\* A worker is idle and task k is the head of the executor's queue
CanStart(k) ==
    /\ trial[k].pc = "queued"
    /\ \A j \in TaskIds : j < k => trial[j].pc # "queued"
    /\ Cardinality({j \in TaskIds : Executing(j)}) < max_workers

\* The worker returns r (raises, if r = "raise"), the process left in `proc`;
\* the locals of the call are gone, the configuration of a process that is
\* still there is what it listens by
Return(t, r, e, proc) ==
    [t EXCEPT !.pc = "returned", !.ret = r, !.exc = e, !.proc = proc, !.port = NoPort,
              !.config_str = IF proc = "listening" THEN @ ELSE NoConfig]

\* the same, terminate() called without looking at poll()
FinallyUnpolled(t, r, e) ==
    [t EXCEPT !.pc = "termwait", !.ret = r, !.exc = e, !.verdict = r]

\* lines 287-293: the return value is r; the finally block finds the process
\* exited, or goes on to terminate it
Finally(t, r, e) ==
    IF t.proc = "exited" THEN Return([t EXCEPT !.verdict = r], r, e, "exited")
    ELSE [t EXCEPT !.pc = "termwait", !.ret = r, !.exc = e, !.verdict = r]

InputOk(k) == tasks_to_process[k].config.outbounds # <<>>

\* lines 186-190: the port the trial goes on with
PortsToUse(k) ==
    IF IsPortAvailable(trial[k].port) THEN {trial[k].port}
    ELSE FreePorts(Len(tasks_to_process) + k)

HasHttpInbound == FirstHttp(TEMPLATE.inbounds, 1) # 0

\* lines 193-209: the engine configuration of task k for port p
Built(k, p) == BuildConfig(TEMPLATE, p, tasks_to_process[k].config)

\* lines 186-209: the trial builds its configuration for the port it goes on with
BuildsConfig(k) ==
    \E p \in PortsToUse(k) : TEMPLATE' = TemplateAfterCopy(TEMPLATE, Built(k, p))

\* lines 178-184: empty config, or no outbounds
TrialInvalidInput(k) ==
    /\ CanStart(k)
    /\ ~InputOk(k)
    /\ trial' = [trial EXCEPT ![k] = Return(@, "False", "none", "none")]
    /\ UNCHANGED <<mainVars, probeVars>>

\* line 189: the port is taken and find_free_port() raises; nothing catches it
\* inside is_xray_config_valid
TrialPortError(k) ==
    /\ CanStart(k)
    /\ InputOk(k)
    /\ ~IsPortAvailable(trial[k].port)
    /\ trial' = [trial EXCEPT ![k] = Return(@, "raise", "OSError", "none")]
    /\ UNCHANGED <<mainVars, probeVars>>

NoHttpInboundPasses == "True"    \* the same, the check passing

\* what the trial returns when the template has no "http" inbound (line 206)
NoHttpInboundResult == "False"

\* lines 192-206: the template has no inbound of protocol "http"
TrialNoHttpInbound(k) ==
    /\ CanStart(k)
    /\ InputOk(k)
    /\ ~HasHttpInbound
    /\ trial' = [trial EXCEPT ![k] = Return(@, NoHttpInboundResult, "none", "none")]
    /\ UNCHANGED <<mainVars, probeVars>>

\* lines 212-218: json.dumps(template) raises TypeError or ValueError: a
\* config_dict that holds something JSON has no form for.  What
\* build_proxies_from_content passes comes from json.loads (line 336) and
\* always serializes; only a direct caller can pass such a config
TrialNotSerializable(k) ==
    /\ pc = "call"
    /\ CanStart(k)
    /\ InputOk(k)
    /\ HasHttpInbound
    /\ BuildsConfig(k)
    /\ trial' = [trial EXCEPT ![k] = Return(@, "False", "TypeError", "none")]
    /\ UNCHANGED <<restVars, probeVars>>

BinaryAssumed == TRUE    \* the same, the executable not looked for

\* line 229: os.path.isfile(xray_path)
BinaryFound == xray_exists

MissingBinaryFails == "False"    \* the same, failing closed

\* what the trial returns when the executable is not a file (line 231)
MissingBinaryResult == "True"

\* lines 229-231: the engine binary is not there
TrialBinaryMissing(k) ==
    /\ CanStart(k)
    /\ InputOk(k)
    /\ HasHttpInbound
    /\ ~BinaryFound
    /\ BuildsConfig(k)
    /\ trial' = [trial EXCEPT ![k] = Return(@, MissingBinaryResult, "none", "none")]
    /\ UNCHANGED <<restVars, probeVars>>

\* the same, every except clause failing open
ExceptResultOpen(e) == "True"

\* the same, without the clause of lines 283-285
ExceptResultRaised(e) == IF e = "FileNotFoundError" THEN "True" ELSE "raise"

\* what the except clauses of lines 279-285 return
ExceptResult(e) == IF e = "FileNotFoundError" THEN "True" ELSE "False"

SpawnErrors == {"FileNotFoundError", "PermissionError"}

\* line 235: Popen raises (the file vanished or cannot be executed)
TrialSpawnError(k, e) ==
    /\ CanStart(k)
    /\ InputOk(k)
    /\ HasHttpInbound
    /\ BinaryFound
    /\ e \in SpawnErrors
    /\ BuildsConfig(k)
    /\ trial' = [trial EXCEPT ![k] = Return(@, ExceptResult(e), e, "none")]
    /\ UNCHANGED <<restVars, probeVars>>

\* lines 186-256: the engine is started and the configuration is written to
\* its stdin; the worker sleeps startup_wait
TrialSpawn(k, p) ==
    /\ CanStart(k)
    /\ InputOk(k)
    /\ p \in PortsToUse(k)
    /\ HasHttpInbound
    /\ BinaryFound
    /\ trial' = [trial EXCEPT
                    ![k].pc = "startup", ![k].port = p, ![k].proc = "running",
                    ![k].launches = @ + 1,
                    ![k].config_str = Built(k, p)]
    /\ TEMPLATE' = TemplateAfterCopy(TEMPLATE, Built(k, p))
    /\ UNCHANGED <<restVars, probeVars>>

\* lines 245-252: the engine is started but has exited before the
\* configuration is written: the pipe is broken
TrialBrokenPipe(k) ==
    /\ CanStart(k)
    /\ InputOk(k)
    /\ HasHttpInbound
    /\ BinaryFound
    /\ trial' = [trial EXCEPT ![k] =
                    Finally([@ EXCEPT !.proc = "exited", !.launches = @ + 1],
                            "False", "BrokenPipeError")]
    /\ BuildsConfig(k)
    /\ UNCHANGED <<restVars, probeVars>>

AfterPollIgnored(exited) == "probe"    \* the same, the poll not looked at

\* what the trial does with the poll of line 259: "probe" or "fail"
AfterPoll(exited) == IF exited THEN "fail" ELSE "probe"

\* what a request through 127.0.0.1:port can meet: the connection is refused
\* if nothing listens there; else the engine that does relays an answer
Refused == [kind |-> "URLError", code |-> 0]
Relayed == {[kind |-> "response", code |-> 204], [kind |-> "HTTPError", code |-> 500],
            Refused}
AnswersAt(p) == IF Listening(p) THEN Relayed ELSE {Refused}

\* the answers a probe through port p can get.  Called by
\* build_proxies_from_content the trial has no test_urls and asks the default
\* URLs (lines 167-173); called on its own (pc = "call") it asks the URLs of
\* test_urls, which a listening engine relays
AnswerLists(p) ==
    IF pc = "call"
    THEN {IF Listening(p) THEN test_urls ELSE [j \in DOMAIN test_urls |-> Refused]}
    ELSE [1..NumDefaultUrls -> AnswersAt(p)]

\* lines 258-285, the process in state `proc` when polled: the trial fails
\* at once, or probes and takes the probe's verdict (an error of the probe
\* is caught by `except Exception`); then the finally block
PollAndProbe(t, proc, answers) ==
    LET exited == proc = "exited"
        polled == [t EXCEPT !.proc = proc,
                            !.poll = IF exited THEN "exited" ELSE "alive"]
    IN  IF AfterPoll(exited) = "fail"
        THEN Finally(polled, "False", "none")
        ELSE LET v == TestConnectivity(answers)
                 probed == [polled EXCEPT !.url = Len(answers)]
             IN  IF v = "raise"
                 THEN Finally(probed, ExceptResult("ZeroDivisionError"),
                              "ZeroDivisionError")
                 ELSE Finally(probed, v, "none")

\* lines 254-271: the engine has exited during the startup wait (bad
\* configuration, port taken, crash) and the poll finds it so
PollExited(k) ==
    /\ trial[k].pc = "startup"
    /\ trial' = [trial EXCEPT ![k] =
                    PollAndProbe(@, "exited", [j \in 1..NumDefaultUrls |-> Refused])]
    /\ UNCHANGED <<mainVars, probeVars>>

\* lines 254-271: another engine listens on the port this one was given; it
\* cannot bind, exits, and the poll finds it so
PollBindFailed(k) ==
    /\ trial[k].pc = "startup"
    /\ trial[k].proc = "running"
    /\ Listening(HttpPort(trial[k].config_str))
    /\ trial' = [trial EXCEPT ![k] =
                    PollAndProbe([@ EXCEPT !.bind = "failed"], "exited",
                                 [j \in 1..NumDefaultUrls |-> Refused])]
    /\ UNCHANGED <<mainVars, probeVars>>

\* lines 254-285: the poll finds the engine alive; _test_connectivity
PollAlive(k, answers) ==
    /\ trial[k].pc = "startup"
    /\ answers \in AnswerLists(trial[k].port)
    /\ trial' = [trial EXCEPT ![k] = PollAndProbe(@, @.proc, answers)]
    /\ UNCHANGED <<mainVars, probeVars>>

----------------------------------------------------------------------------
(* The rest of the finally block (lines 291-319) *)

\* what is left of the process when the wait after kill() times out too
\* (lines 302-303, "Process is really stuck, ignore"): it is still there
GivenUp(proc) == proc

\* the same, the exception of cleanup leaving the function
AfterCleanupRaised(verdict, cleanup_error) ==
    IF cleanup_error = "none" THEN verdict ELSE "raise"

\* what the call returns once the finally block is through: the block has no
\* return of its own and lines 317-319 swallow what it raises
AfterCleanup(verdict, cleanup_error) == verdict

\* lines 293-299: terminate() is called first; kill() only in the handler
\* of the TimeoutExpired of the wait that follows it
Signals(grace) ==
    IF grace = "expired" THEN <<"terminate", "kill">> ELSE <<"terminate">>

\* the trial has been through cleanup: signals `sig` sent, the wait after
\* terminate() ended as `grace`, `err` met, the process left in `proc`
Cleaned(t, sig, grace, err, proc) ==
    Return([t EXCEPT !.sig = sig, !.grace = grace, !.cleanup_error = err],
           AfterCleanup(t.verdict, err), t.exc, proc)

\* lines 293-296: terminate(); the process exits within the 3 s of
\* process.wait
CleanupTerminated(k) ==
    /\ trial[k].pc = "termwait"
    /\ trial' = [trial EXCEPT ![k] = Cleaned(@, Signals("exited"), "exited", "none", "exited")]
    /\ UNCHANGED <<mainVars, probeVars>>

\* lines 293-301: terminate(); TimeoutExpired; process.kill(); the process
\* exits within the 1 s of the second process.wait
CleanupKilled(k) ==
    /\ trial[k].pc = "termwait"
    /\ trial' = [trial EXCEPT ![k] =
                    Cleaned(@, Signals("expired"), "expired", "none", "exited")]
    /\ UNCHANGED <<mainVars, probeVars>>

\* lines 293-303: terminate(); TimeoutExpired; process.kill(); TimeoutExpired
\* again: the process is given up and the worker returns
CleanupStuck(k) ==
    /\ trial[k].pc = "termwait"
    /\ trial' = [trial EXCEPT ![k] =
                    Cleaned(@, Signals("expired"), "expired", "none", GivenUp(@.proc))]
    /\ UNCHANGED <<mainVars, probeVars>>

\* where cleanup can raise something its inner handlers do not catch
CleanupSteps == {"terminate", "wait", "kill", "close"}

\* lines 291-319: a step of cleanup raises and the except clause of the
\* block logs it.  terminate() or kill() raising (the process is no longer
\* this user's to signal) leaves the process as it is; wait() raising
\* something else than TimeoutExpired leaves it signalled, exited or not;
\* a close() raising comes after the process has exited in time
CleanupError(k, at, proc) ==
    /\ trial[k].pc = "termwait"
    /\ at \in CleanupSteps
    /\ proc \in {"exited", trial[k].proc}
    /\ at \in {"terminate", "kill"} => proc = trial[k].proc
    /\ at = "close" => proc = "exited"
    /\ trial' = [trial EXCEPT ![k] =
                    CASE at = "terminate" ->
                             Cleaned(@, <<>>, "none", "PermissionError", proc)
                      [] at = "wait" ->
                             Cleaned(@, <<"terminate">>, "none", "ChildProcessError", proc)
                      [] at = "kill" ->
                             Cleaned(@, <<"terminate">>, "expired", "PermissionError", proc)
                      [] at = "close" ->
                             Cleaned(@, Signals("exited"), "exited", "AttributeError", proc)]
    /\ UNCHANGED <<mainVars, probeVars>>

----------------------------------------------------------------------------
(* The engine process *)

\* the engine has read its configuration and binds the port it names, if
\* nothing listens there
EngineBind(k) ==
    /\ trial[k].pc = "startup"
    /\ trial[k].proc = "running"
    /\ ~Listening(HttpPort(trial[k].config_str))
    /\ trial' = [trial EXCEPT ![k].proc = "listening"]
    /\ UNCHANGED <<mainVars, probeVars>>

----------------------------------------------------------------------------

Next ==
    \/ \E cpu \in CpuCounts : Parse(cpu)
    \/ \E p \in PortNames : SubmitTask(p)
    \/ \E k \in TaskIds : CollectResult(k)
    \/ EndBatch
    \/ BatchPause
    \/ \E name \in Names : BuildConfigJson(name)
    \/ \E k \in TaskIds : TrialInvalidInput(k)
    \/ \E k \in TaskIds : TrialPortError(k)
    \/ \E k \in TaskIds : TrialNoHttpInbound(k)
    \/ \E k \in TaskIds : TrialBinaryMissing(k)
    \/ \E k \in TaskIds, e \in SpawnErrors : TrialSpawnError(k, e)
    \/ \E k \in TaskIds, p \in PortNames : TrialSpawn(k, p)
    \/ \E k \in TaskIds : TrialBrokenPipe(k)
    \/ \E k \in TaskIds : PollExited(k)
    \/ \E k \in TaskIds : PollBindFailed(k)
    \/ \E k \in TaskIds : \E answers \in AnswerLists(trial[k].port) : PollAlive(k, answers)
    \/ \E k \in TaskIds : CleanupTerminated(k)
    \/ \E k \in TaskIds : CleanupKilled(k)
    \/ \E k \in TaskIds : CleanupStuck(k)
    \/ \E k \in TaskIds, at \in CleanupSteps, proc \in {"exited", "running", "listening"} :
           CleanupError(k, at, proc)
    \/ \E k \in TaskIds : EngineBind(k)
    \/ SubmitPortError
    \/ AbortRaise

Spec == Init /\ [][Next]_vars

----------------------------------------------------------------------------
(* _test_connectivity on its own, one URL at a time (lines 109-153) *)

\* test_urls holds what each URL of the list will answer
UrlLists == SeqsUpTo(Answers, MaxUrls)

InitProbe ==
    /\ lines = <<>>
    /\ TEMPLATE = TemplateHttp
    /\ xray_exists = TRUE
    /\ pc = "probe"
    /\ tasks_to_process = <<>>
    /\ max_workers = 0
    /\ batch_num = 0
    /\ submit_i = 0
    /\ batch_completed = 0
    /\ trial = <<>>
    /\ proxies = <<>>
    /\ built_config = NoBuild
    /\ inverted = FALSE
    /\ test_urls \in UrlLists
    /\ url_i = 0
    /\ successful_tests = 0
    /\ is_valid = "running"

\* lines 112-140: the next URL of the list is requested; no outcome leaves
\* the loop
TestUrl ==
    /\ is_valid = "running"
    /\ url_i < Len(test_urls)
    /\ url_i' = url_i + 1
    /\ successful_tests' = CountTest(successful_tests, test_urls[url_i + 1])
    /\ UNCHANGED <<orchVars, test_urls, is_valid>>

\* lines 142-153: the list is exhausted
TestsDone ==
    /\ is_valid = "running"
    /\ url_i = Len(test_urls)
    /\ is_valid' = Verdict(successful_tests, Len(test_urls))
    /\ UNCHANGED <<orchVars, test_urls, url_i, successful_tests>>

NextProbe ==
    \/ TestUrl
    \/ TestsDone

SpecProbe == InitProbe /\ [][NextProbe]_vars

----------------------------------------------------------------------------
(* Properties *)

Live(k) == trial[k].proc \in {"running", "listening"}
Decided(k) == trial[k].pc \in {"returned", "collected"}
Translates(kind) == kind \in {"ok", "noout"}

\* the candidate of line i is in the list ps
InList(ps, i) == \E n \in 1..Len(ps) : ps[n].server = i

\* C1: whenever a trial has returned its verdict, the engine process it
\* started is no longer running, whichever way the trial went.
C1_NoTrialOutlivesVerdict ==
    \A k \in DOMAIN trial : Decided(k) => ~Live(k)

\* C2: the list build_proxies_from_content returns is strictly ascending in
\* the candidates' position in the input, whatever order the trials were
\* completed in.
C2_ResultAscending ==
    pc = "done" =>
        \A m, n \in 1..Len(proxies) : m < n => proxies[m].server < proxies[n].server

\* the run has returned two or more proxies, one of which was appended after
\* a proxy of a later line
C2_Witness == pc = "done" /\ inverted /\ Len(proxies) >= 2

\* C3: the returned list holds exactly the candidates whose trial returned
\* True, each once, so it is no longer than the list of translated candidates.
C3_ExactlyPassed ==
    pc = "done" =>
        /\ \A k \in DOMAIN trial :
              trial[k].ret = "True" <=> InList(proxies, tasks_to_process[k].line)
        /\ \A n \in 1..Len(proxies) :
              \E k \in DOMAIN trial : tasks_to_process[k].line = proxies[n].server
        /\ \A m, n \in 1..Len(proxies) : m # n => proxies[m].server # proxies[n].server
        /\ Len(proxies) <= Len(tasks_to_process)

\* the run has returned, some candidate passed and some candidate failed
C3_Witness ==
    /\ pc = "done"
    /\ \E k, j \in DOMAIN trial : trial[k].ret = "True" /\ trial[j].ret = "False"

C5_ExceptionFails ==
    \A k \in DOMAIN trial :
        (trial[k].pc = "returned" /\ trial[k].exc # "none") => trial[k].ret # "True"

\* C5 as amended: a trial that met an exception returns False or raises, and
\* the orchestrator adds nothing for it, unless the exception is the
\* FileNotFoundError of the launch, for which it returns True; the
\* orchestrator is aborted by a failed submission only, and when it returns,
\* every task has been handled, whatever its siblings met.
C5_ExceptionFailsButNotFound ==
    /\ \A k \in DOMAIN trial :
          (trial[k].pc = "returned" /\ trial[k].exc # "none") =>
              IF trial[k].exc = "FileNotFoundError"
              THEN trial[k].ret = "True"
              ELSE trial[k].ret \in {"False", "raise"}
    /\ \A k \in DOMAIN trial :
          trial[k].ret = "raise" =>
              /\ Decided(k)
              /\ ~InList(proxies, tasks_to_process[k].line)
    /\ pc \in {"aborting", "raised"} => submit_i < end_idx
    /\ pc = "done" => \A k \in DOMAIN trial : trial[k].pc = "collected"

\* the run has returned; one trial raised and another, handled as well, passed
C5_Witness ==
    /\ pc = "done"
    /\ \E k, j \in DOMAIN trial :
          /\ trial[k].ret = "raise"
          /\ trial[j].ret = "True"
          /\ InList(proxies, tasks_to_process[j].line)

\* C6 as claimed: with the engine binary missing, the returned list is the
\* whole list of scheduled candidates.
C6_FailOpenEveryCandidate ==
    (pc = "done" /\ ~xray_exists) =>
        /\ Len(proxies) = Len(tasks_to_process)
        /\ \A k \in DOMAIN trial : trial[k].ret = "True"

\* C6 as amended: with the engine binary missing and a template that has an
\* "http" inbound, every scheduled candidate that has an outbound passes, and
\* the returned list is these candidates.
C6_FailOpenWithOutbound ==
    (~xray_exists /\ HasHttpInbound) =>
        /\ \A k \in DOMAIN trial : Decided(k) => (trial[k].ret = "True" <=> InputOk(k))
        /\ pc = "done" =>
              \A k \in DOMAIN trial :
                  InputOk(k) <=> InList(proxies, tasks_to_process[k].line)

\* the run has returned without the binary: two candidates passed unchecked,
\* one without outbound did not
C6_Witness ==
    /\ pc = "done"
    /\ ~xray_exists
    /\ HasHttpInbound
    /\ Len(proxies) >= 2
    /\ \E k \in DOMAIN trial : ~InputOk(k)

\* C7: with a template that has no "http" inbound no trial passes, and the
\* returned list is empty.
C7_NoHttpInboundAllFail ==
    ~HasHttpInbound =>
        /\ \A k \in DOMAIN trial : trial[k].ret # "True"
        /\ \A k \in DOMAIN trial : Decided(k) => trial[k].ret \in {"False", "raise"}
        /\ proxies = <<>>

\* the run has returned under such a template, the binary present, two
\* candidates with an outbound among the tasks
C7_Witness ==
    /\ pc = "done"
    /\ ~HasHttpInbound
    /\ xray_exists
    /\ \E k, j \in DOMAIN trial : k # j /\ InputOk(k) /\ InputOk(j)

\* C8: when _test_connectivity has its verdict, every URL of the list has
\* been requested, and the verdict is True exactly if some URL answered with
\* a status from 200 to 299; an error on one URL only leaves the count as
\* it is.
C8_PassedIffSome2xx ==
    /\ is_valid \in {"True", "False", "raise"} =>
          /\ url_i = Len(test_urls)
          /\ is_valid = "True" <=>
                \E j \in 1..Len(test_urls) :
                    /\ test_urls[j].kind \in {"response", "HTTPError"}
                    /\ test_urls[j].code >= 200
                    /\ test_urls[j].code <= 299
    /\ is_valid = "running" =>
          successful_tests =
              Cardinality({j \in 1..url_i :
                              /\ test_urls[j].kind \in {"response", "HTTPError"}
                              /\ test_urls[j].code >= 200
                              /\ test_urls[j].code <= 299})

\* the first URL met an error, a later one answered 2xx, and the verdict is
\* True
C8_Witness ==
    /\ is_valid = "True"
    /\ Len(test_urls) >= 2
    /\ test_urls[1].kind \in {"URLError", "timeout"}
    /\ test_urls[Len(test_urls)].kind = "HTTPError"

\* C9: a trial whose engine was found exited by the poll after the startup
\* wait returns False and has issued no request; requests are issued only
\* after a poll that found the process alive.
C9_ExitedNeverProbed ==
    \A k \in DOMAIN trial :
        /\ trial[k].poll = "exited" => (trial[k].url = 0 /\ trial[k].ret = "False")
        /\ trial[k].url > 0 => trial[k].poll = "alive"

\* one trial has failed at the poll while another has probed
C9_Witness ==
    \E k, j \in DOMAIN trial :
        /\ trial[k].pc = "returned" /\ trial[k].poll = "exited"
        /\ trial[j].url > 0

\* C10: at every moment the trials executing, and the live engine processes
\* the validator has started, are at most the worker count.
C10_LiveEnginesBounded ==
    pc # "parse" =>
        /\ Cardinality({k \in DOMAIN trial : Executing(k)}) <= max_workers
        /\ Cardinality({k \in DOMAIN trial : Live(k)}) <= max_workers

BatchOf(k) == (k - 1) \div batch_size

C11_Partition ==
    pc # "parse" =>
        /\ \A k \in DOMAIN trial :
              /\ BatchOf(k) \in 0..(total_batches - 1)
              /\ trial[k].pc # "unsubmitted" => BatchOf(k) <= batch_num
              /\ trial[k].pc \in {"queued", "startup", "termwait"} =>
                    (BatchOf(k) = batch_num /\ k > start_idx /\ k <= end_idx)
        /\ end_idx - start_idx <= BatchFactor * max_workers
        /\ pc = "sleep" => batch_num < total_batches - 1
        /\ \A k, j \in DOMAIN trial :
              (BatchOf(j) < BatchOf(k) /\ trial[k].pc # "unsubmitted") =>
                  trial[j].pc = "collected"

C11_Step == batch_num' # batch_num => pc = "sleep"

\* C11: task k belongs to batch (k-1) div (2 x worker count) and to no
\* other; a trial is only under way in the current batch, no trial of a
\* batch is submitted before every trial of the batches before it has been
\* handled, the main thread moves to the next batch only out of the pause,
\* and it does not pause after the last batch.
C11_BatchesInTurn == []C11_Partition /\ [][C11_Step]_vars

\* a trial of the second batch is under way
C11_Witness ==
    /\ batch_num = 1
    /\ \E k \in DOMAIN trial : BatchOf(k) = 1 /\ Executing(k)

\* C12: no two trials that are executing at the same time have the same
\* local port.
C12_PortsPrivate ==
    \A k, j \in DOMAIN trial :
        (k # j /\ Executing(k) /\ Executing(j)) => trial[k].port # trial[j].port

\* C13: a trial is marked failed after its engine could not bind its port
\* only when a second engine has been started for it on a fresh port, and no
\* trial starts more than two engines.
C13_BindFailureRetriedOnce ==
    \A k \in DOMAIN trial :
        /\ (trial[k].bind = "failed" /\ trial[k].ret = "False") => trial[k].launches = 2
        /\ trial[k].launches <= 2

\* C14: a failed port allocation never takes the orchestrator out of its
\* loop: the candidate is skipped, the run goes on and returns a list.
C14_AllocationFailureSkipped == pc \notin {"aborting", "raised"}

\* C15: the run never comes to rest anywhere but at the return of
\* build_proxies_from_content, every trial decided: no worker and no batch
\* is left waiting, and the function returns.
C15_StopsOnlyReturned ==
    ENABLED Next \/ (pc \in {"done", "built"} /\ \A k \in DOMAIN trial : Decided(k))


\* the configuration cfg holds nothing of a trial: its inbounds are the
\* template's, and trial k's apart, so are its outbounds
OwnConfig(k, cfg) ==
    /\ Len(cfg.inbounds) = Len(TEMPLATE.inbounds)
    /\ \A i \in 1..Len(cfg.inbounds) :
           cfg.inbounds[i] \in {TEMPLATE.inbounds[i],
                                [TEMPLATE.inbounds[i] EXCEPT !.port = trial[k].port]}
    /\ cfg.outbounds = <<tasks_to_process[k].config.outbounds[1]>> \o TEMPLATE.outbounds

C16_Configs ==
    /\ \A k \in DOMAIN trial : Executing(k) => OwnConfig(k, trial[k].config_str)
    /\ pc = "built" =>
           /\ built_config.inbounds = TEMPLATE.inbounds
           /\ built_config.outbounds = proxies \o TEMPLATE.outbounds

\* C16: no step of a trial or of a config build changes TEMPLATE, so it is
\* at all times what was loaded; the configuration of every running trial is
\* the loaded template with its own port and its own outbound only, and the
\* built configuration is the loaded template with the result list in front.
C16_TemplateNeverMutated == []C16_Configs /\ [][TEMPLATE' = TEMPLATE]_vars

C16_Witness ==
    /\ pc = "built"
    /\ xray_exists
    /\ Len(proxies) >= 2
    /\ built_config.outbounds # TEMPLATE.outbounds


----------------------------------------------------------------------------
(* The engine configuration of one candidate, over any template.json *)

InitConfig ==
    /\ lines = <<"ok">>
    /\ TEMPLATE \in AnyTemplates
    /\ xray_exists = TRUE
    /\ pc = "parse"
    /\ tasks_to_process = <<>>
    /\ max_workers = 0
    /\ batch_num = 0
    /\ submit_i = 0
    /\ batch_completed = 0
    /\ trial = <<>>
    /\ proxies = <<>>
    /\ built_config = NoBuild
    /\ inverted = FALSE
    /\ ProbeIdle

\* the candidate is submitted and its trial builds the configuration and
\* starts the engine, or finds no inbound to give the port to
NextConfig ==
    \/ \E cpu \in CpuCounts : Parse(cpu)
    \/ \E p \in PortNames : SubmitTask(p)
    \/ \E k \in TaskIds, p \in PortNames : TrialSpawn(k, p)
    \/ \E k \in TaskIds : TrialNoHttpInbound(k)

SpecConfig == InitConfig /\ [][NextConfig]_vars

\* the position of the first inbound of protocol "http" of the template
Matched(i) ==
    /\ i \in DOMAIN TEMPLATE.inbounds
    /\ TEMPLATE.inbounds[i].protocol = "http"
    /\ \A j \in 1..(i - 1) : TEMPLATE.inbounds[j].protocol # "http"

\* C17: the configuration a trial has built differs from the template in the
\* port of the first "http" inbound, which is the trial's port, and in the
\* candidate's outbound standing before the template's outbounds; every
\* other inbound, the template's outbounds in their order and every other
\* field are the template's.
C17_OnlyPortAndOutbound ==
    \A k \in DOMAIN trial :
        trial[k].pc = "startup" =>
            LET cfg == trial[k].config_str
            IN  /\ DOMAIN cfg = DOMAIN TEMPLATE
                /\ \A f \in DOMAIN TEMPLATE \ {"inbounds", "outbounds"} : cfg[f] = TEMPLATE[f]
                /\ DOMAIN cfg.inbounds = DOMAIN TEMPLATE.inbounds
                /\ \A i \in DOMAIN TEMPLATE.inbounds :
                       IF Matched(i)
                       THEN cfg.inbounds[i] = [protocol |-> "http", port |-> trial[k].port]
                       ELSE cfg.inbounds[i] = TEMPLATE.inbounds[i]
                /\ Head(cfg.outbounds) = Head(tasks_to_process[k].config.outbounds)
                /\ Tail(cfg.outbounds) = TEMPLATE.outbounds

C17_Witness ==
    \E k \in DOMAIN trial :
        /\ trial[k].pc = "startup"
        /\ Len(TEMPLATE.outbounds) >= 2
        /\ \E i, j \in DOMAIN TEMPLATE.inbounds :
               /\ i < j
               /\ Matched(j)
               /\ \E n \in DOMAIN TEMPLATE.inbounds :
                      n > j /\ TEMPLATE.inbounds[n].protocol = "http"


\* the process of trial k was found exited before cleanup: by the poll after
\* the startup wait, or by the write to its stdin
FoundExited(k) == trial[k].poll = "exited" \/ trial[k].exc = "BrokenPipeError"

\* C18: cleanup sends kill() only after terminate(), and only when the wait
\* of the grace period expired; it signals no process that has exited: a
\* worker waiting after terminate() has a process that had not exited, and a
\* trial whose process was found exited has sent it no signal.
C18_KillOnlyAfterGrace ==
    \A k \in DOMAIN trial :
        /\ trial[k].sig \in {<<>>, <<"terminate">>, <<"terminate", "kill">>}
        /\ trial[k].sig = <<"terminate", "kill">> => trial[k].grace = "expired"
        /\ trial[k].grace = "exited" => trial[k].sig = <<"terminate">>
        /\ trial[k].pc = "termwait" => trial[k].proc \in {"running", "listening"}
        /\ FoundExited(k) => trial[k].sig = <<>>

C18_Witness ==
    \E k, j \in DOMAIN trial :
        /\ trial[k].pc = "returned"
        /\ trial[k].sig = <<"terminate", "kill">>
        /\ trial[j].pc = "returned"
        /\ trial[j].poll = "exited"
        /\ trial[j].launches = 1


\* C19: a trial that has left by a return statement returns the value of
\* that statement, whatever cleanup met afterwards; a trial whose cleanup
\* raised returns a verdict all the same and raises nothing to the
\* orchestrator.
C19_CleanupKeepsVerdict ==
    \A k \in DOMAIN trial :
        trial[k].pc = "returned" =>
            /\ trial[k].verdict # "none" => trial[k].ret = trial[k].verdict
            /\ trial[k].cleanup_error # "none" =>
                   /\ trial[k].verdict \in {"True", "False"}
                   /\ trial[k].ret # "raise"

C19_Witness ==
    \E k, j \in DOMAIN trial :
        /\ trial[k].pc = "returned"
        /\ trial[k].cleanup_error # "none"
        /\ trial[k].ret = "True"
        /\ trial[j].pc = "returned"
        /\ trial[j].cleanup_error # "none"
        /\ trial[j].ret = "False"


\* C20: the list build_proxies_from_content returns is tagged densely from 1:
\* its n-th element carries the tag proxy{n}, whichever candidates failed
\* translation or validation.
C20_DenseTags ==
    pc \in {"done", "built"} =>
        \A n \in 1..Len(proxies) : proxies[n].tag = MakeTag(n)


----------------------------------------------------------------------------
(* build_proxies_from_content against a deterministic engine: every engine  *)
(* that is started binds its port if nothing listens there and exits if     *)
(* something does, relays 204 for every URL, and exits on terminate()       *)

InitStub == Init /\ TEMPLATE = TemplateHttp /\ xray_exists

\* lines 258-277: the engine listens, the poll finds it alive and every
\* canary request through it is answered 204
StubProbe(k) ==
    /\ trial[k].proc = "listening"
    /\ PollAlive(k, [j \in 1..NumDefaultUrls |-> [kind |-> "response", code |-> 204]])

NextStub ==
    \/ \E cpu \in CpuCounts : Parse(cpu)
    \/ \E p \in PortNames : SubmitTask(p)
    \/ \E k \in TaskIds : CollectResult(k)
    \/ EndBatch
    \/ BatchPause
    \/ \E k \in TaskIds : TrialInvalidInput(k)
    \/ \E k \in TaskIds, p \in PortNames : TrialSpawn(k, p)
    \/ \E k \in TaskIds : EngineBind(k)
    \/ \E k \in TaskIds : PollBindFailed(k)
    \/ \E k \in TaskIds : StubProbe(k)
    \/ \E k \in TaskIds : CleanupTerminated(k)

SpecStub == InitStub /\ [][NextStub]_vars

\* C21: against the deterministic engine the members of the returned list
\* are the same in every run: they are the candidates the engine passes,
\* that is every line translated to a configuration with an outbound,
\* whatever the interleaving, the completion order and the ports.
C21_SameMembership ==
    pc = "done" =>
        \A i \in DOMAIN lines : lines[i] = "ok" <=> InList(proxies, i)


\* trial k cannot get as far as the launch: its config has no outbound, the
\* template has no "http" inbound, the configuration did not serialize, or
\* the executable is not there
StopsBeforeLaunch(k) ==
    \/ ~InputOk(k)
    \/ ~HasHttpInbound
    \/ trial[k].exc = "TypeError"
    \/ ~xray_exists

\* C27: a trial that fails or is bypassed before the launch never has an
\* engine process: none was started for it, it is never waiting for one to
\* start or to exit, cleanup has sent no signal, and unless the port
\* re-check raised it has returned a verdict.
C27_NoProcessBeforeLaunch ==
    \A k \in DOMAIN trial :
        StopsBeforeLaunch(k) =>
            /\ trial[k].launches = 0
            /\ trial[k].proc = "none"
            /\ trial[k].sig = <<>>
            /\ ~Executing(k)
            /\ (trial[k].pc = "returned" /\ trial[k].exc # "OSError")
                   => trial[k].ret \in {"True", "False"}

\* a config that did not serialize was turned down, the executable there
C27_Witness ==
    \E k \in DOMAIN trial :
        /\ trial[k].pc = "returned" /\ trial[k].exc = "TypeError"
        /\ trial[k].ret = "False"
        /\ xray_exists


----------------------------------------------------------------------------
(* is_xray_config_valid called on its own, with a list of test URLs *)

\* is_xray_config_valid(config, port, test_urls = ...) is called for one
\* config, with or without an outbound; the template may lack the "http"
\* inbound and the executable may be missing; test_urls holds what each URL
\* of the list answers
InitTrial ==
    /\ lines \in {<<"ok">>, <<"noout">>}
    /\ TEMPLATE \in Templates
    /\ xray_exists \in BOOLEAN
    /\ pc = "call"
    /\ tasks_to_process = ParseLines(lines, 0)
    /\ max_workers = 1
    /\ batch_num = 0
    /\ submit_i = 1
    /\ batch_completed = 0
    /\ trial = <<[NewTrial EXCEPT !.pc = "queued", !.port = 1, !.submits = 1]>>
    /\ proxies = <<>>
    /\ built_config = NoBuild
    /\ inverted = FALSE
    /\ test_urls \in UrlLists
    /\ url_i = 0
    /\ successful_tests = 0
    /\ is_valid = "idle"

NextTrial ==
    \/ \E k \in TaskIds : TrialInvalidInput(k)
    \/ \E k \in TaskIds : TrialNoHttpInbound(k)
    \/ \E k \in TaskIds : TrialNotSerializable(k)
    \/ \E k \in TaskIds : TrialBinaryMissing(k)
    \/ \E k \in TaskIds, p \in PortNames : TrialSpawn(k, p)
    \/ \E k \in TaskIds : EngineBind(k)
    \/ \E k \in TaskIds : PollExited(k)
    \/ \E k \in TaskIds : \E answers \in AnswerLists(trial[k].port) : PollAlive(k, answers)
    \/ \E k \in TaskIds : CleanupTerminated(k)
    \/ \E k \in TaskIds : CleanupKilled(k)
    \/ \E k \in TaskIds : CleanupStuck(k)
    \/ \E k \in TaskIds, at \in CleanupSteps, proc \in {"exited", "running", "listening"} :
           CleanupError(k, at, proc)

SpecTrial == InitTrial /\ [][NextTrial]_vars

----------------------------------------------------------------------------
(* The other programs of the repository.  Each is modelled on its own, in  *)
(* the variables lines, TEMPLATE, pc, proxies and built_config; the rest    *)
(* of the state is idle.                                                    *)

auxVars == <<xray_exists, tasks_to_process, max_workers, batch_num, submit_i,
             batch_completed, trial, inverted, probeVars>>

AuxIdle ==
    /\ xray_exists = TRUE
    /\ tasks_to_process = <<>>
    /\ max_workers = 0
    /\ batch_num = 0
    /\ submit_i = 0
    /\ batch_completed = 0
    /\ trial = <<>>
    /\ inverted = FALSE
    /\ ProbeIdle

----------------------------------------------------------------------------
(* xray_checker.py: parse_base64_subscription (lines 43-71) *)

\* the decoded lines tried: the five schemes, a scheme no protocol has, a
\* scheme inside the line, surrounding blanks, a blank and an empty line
SubscriptionLines ==
    LET sep == <<":", "/", "/", "h">>
    IN  {<<"v", "l", "e", "s", "s">> \o sep,
         <<"v", "m", "e", "s", "s">> \o sep,
         <<"s", "s">> \o sep,
         <<"s", "h", "a", "d", "o", "w", "s", "o", "c", "k", "s">> \o sep,
         <<"t", "r", "o", "j", "a", "n">> \o sep,
         <<"h", "t", "t", "p">> \o sep,
         <<"x">> \o <<"s", "s">> \o sep,
         <<" ">> \o <<"s", "s">> \o sep \o <<" ">>,
         <<" ">>,
         <<>>}

\* line 66: the prefixes a line is kept for
Protocols ==
    {<<"v", "l", "e", "s", "s", ":", "/", "/">>,
     <<"s", "s", ":", "/", "/">>,
     <<"t", "r", "o", "j", "a", "n", ":", "/", "/">>,
     <<"s", "h", "a", "d", "o", "w", "s", "o", "c", "k", "s", ":", "/", "/">>}

RECURSIVE Strip(_)
Strip(s) ==      \* str.strip(), blanks being the only whitespace tried
    IF s = <<>> THEN s
    ELSE IF Head(s) = " " THEN Strip(Tail(s))
    ELSE IF s[Len(s)] = " " THEN Strip(SubSeq(s, 1, Len(s) - 1))
    ELSE s

RECURSIVE ParseSubscription(_)
ParseSubscription(ls) ==    \* the loop of lines 61-67 over the decoded lines
    IF ls = <<>> THEN <<>>
    ELSE LET line == Strip(Head(ls))
         IN  (IF line # <<>> /\ \E protocol \in Protocols : StartsWith(line, protocol)
              THEN <<line>> ELSE <<>>) \o ParseSubscription(Tail(ls))

InitParse ==
    /\ AuxIdle
    /\ lines \in SeqsUpTo(SubscriptionLines, MaxLines)
    /\ TEMPLATE = TemplateHttp
    /\ pc = "b64"
    /\ proxies = <<>>
    /\ built_config = NoBuild

\* parse_base64_subscription returns (the data decoded to `lines`)
ParseBase64 ==
    /\ pc = "b64"
    /\ pc' = "parsed"
    /\ proxies' = ParseSubscription(lines)
    /\ UNCHANGED <<lines, TEMPLATE, built_config, auxVars>>

SpecParse == InitParse /\ [][ParseBase64]_vars

\* C22: parse_base64_subscription returns, in their order, the non-empty
\* lines (surrounding blanks apart) that start with vless://, vmess://,
\* ss://, shadowsocks:// or trojan://, and no other line.
C22_FiveProtocols ==
    pc = "parsed" =>
        LET supported == Protocols \cup {<<"v", "m", "e", "s", "s", ":", "/", "/">>}
            Kept(l) == l # <<>> /\ \E w \in supported : StartsWith(l, w)
        IN  proxies = SelectSeq([i \in DOMAIN lines |-> Strip(lines[i])], Kept)


----------------------------------------------------------------------------
(* xray_checker.py: get_working_proxies calling _check_xray_subscription    *)
(* (lines 218-392 and 622-678).  lines is proxy_urls, xray_exists says the   *)
(* xray-checker binary is there, trial[1] is the checker process and the    *)
(* call, proxies is working_proxy_urls.                                     *)

InitChecker ==
    /\ lines \in SeqsUpTo({<<"v", "l", "e", "s", "s", ":", "/", "/", "h">>,
                           <<"s", "s", ":", "/", "/", "h">>}, MaxLines)
    /\ TEMPLATE = TemplateHttp
    /\ xray_exists \in BOOLEAN
    /\ pc = "check"
    /\ tasks_to_process = <<>>
    /\ max_workers = 0
    /\ batch_num = 0
    /\ submit_i = 0
    /\ batch_completed = 0
    /\ trial = <<NewTrial>>
    /\ proxies = <<>>
    /\ built_config = NoBuild
    /\ inverted = FALSE
    /\ ProbeIdle

checkerRest == <<lines, TEMPLATE, xray_exists, tasks_to_process, max_workers, batch_num,
                 submit_i, batch_completed, built_config, inverted, probeVars>>

\* the same, the proxies of the subscription returned unchecked
MissingCheckerUnchecked == "pxies"

\* what get_working_proxies returns when Popen raises FileNotFoundError:
\* lines 370-372 raise Exception, lines 676-678 catch it and return None
MissingCheckerResult == "None"

\* lines 622-678: what get_working_proxies returns once
\* _check_xray_subscription has left with exception t.exc or returned ws
Leave(t, ws) ==
    [t EXCEPT !.pc = "returned",
              !.ret = IF t.exc # "none" \/ ws = <<>> THEN "None" ELSE "pxies"]

\* lines 301-303: subprocess.Popen(cmd, ...)
CheckerLaunch ==
    /\ pc = "check"
    /\ IF xray_exists
       THEN /\ pc' = "startup"
            /\ trial' = [trial EXCEPT ![1].proc = "running", ![1].launches = 1]
       ELSE /\ pc' = "returned"
            /\ trial' = [trial EXCEPT ![1].pc = "returned", ![1].exc = "FileNotFoundError",
                                      ![1].ret = MissingCheckerResult]
    /\ UNCHANGED <<proxies, checkerRest>>

\* the checker process exits on its own
CheckerDies ==
    /\ pc \in {"startup", "polling"}
    /\ trial[1].proc = "running"
    /\ trial' = [trial EXCEPT ![1].proc = "exited"]
    /\ UNCHANGED <<pc, proxies, checkerRest>>

\* lines 305-313: after the 15 s, the process has exited (raise) or not
StartupPoll ==
    /\ pc = "startup"
    /\ IF trial[1].proc = "exited"
       THEN /\ pc' = "finally"
            /\ trial' = [trial EXCEPT ![1].poll = "exited", ![1].exc = "Exception"]
       ELSE /\ pc' = "polling"
            /\ trial' = [trial EXCEPT ![1].poll = "alive"]
    /\ UNCHANGED <<proxies, checkerRest>>

\* lines 319-368: the loop is left: working proxies `ws` found (break), the
\* process found dead (break), time is up, or something other than a
\* RequestException raised (lines 374-376)
PollEnds(how, ws) ==
    /\ pc = "polling"
    /\ how \in {"found", "died", "timeout", "raises"}
    /\ how = "found" => trial[1].proc = "running" /\ ws # <<>>
    /\ how = "died" => trial[1].proc = "exited"
    /\ how # "found" => ws = <<>>
    /\ pc' = "finally"
    /\ proxies' = ws
    /\ trial' = [trial EXCEPT ![1].exc = IF how = "raises" THEN "Exception" ELSE "none"]
    /\ UNCHANGED checkerRest

\* the same, cleanup being the last statements of the try block
NeedsCleanupUnlessRaised(t) == t.proc = "running" /\ t.exc = "none"

\* line 380, in the finally block: process and process.poll() is None
NeedsCleanup(t) == t.proc = "running"

\* lines 378-392: nothing to clean up, or terminate() and the process exits
\* within the 10 s of process.wait, or TimeoutExpired and kill()
CheckerFinally(grace) ==
    /\ pc = "finally"
    /\ grace \in {"none", "exited", "expired"}
    /\ grace = "none" <=> ~NeedsCleanup(trial[1])
    /\ pc' = IF grace = "expired" THEN "killwait" ELSE "returned"
    /\ trial' = [trial EXCEPT ![1] =
                    CASE grace = "none"    -> Leave(@, proxies)
                      [] grace = "exited"  ->
                             Leave([@ EXCEPT !.proc = "exited", !.grace = grace,
                                             !.sig = <<"terminate">>], proxies)
                      [] grace = "expired" ->
                             [@ EXCEPT !.grace = grace, !.sig = <<"terminate", "kill">>]]
    /\ UNCHANGED <<proxies, checkerRest>>

\* line 390: process.wait() after kill(), without a timeout, returns
CheckerReaped ==
    /\ pc = "killwait"
    /\ pc' = "returned"
    /\ trial' = [trial EXCEPT ![1] = Leave([@ EXCEPT !.proc = "exited"], proxies)]
    /\ UNCHANGED <<proxies, checkerRest>>

NextChecker ==
    \/ CheckerLaunch
    \/ CheckerDies
    \/ StartupPoll
    \/ \E how \in {"found", "died", "timeout", "raises"} :
           \E ws \in SeqsUpTo({lines[i] : i \in DOMAIN lines}, 2) : PollEnds(how, ws)
    \/ \E grace \in {"none", "exited", "expired"} : CheckerFinally(grace)
    \/ CheckerReaped

SpecChecker == InitChecker /\ [][NextChecker]_vars

C29_MissingCheckerIsError ==
    (pc = "returned" /\ ~xray_exists) =>
        /\ trial[1].exc # "none"
        /\ trial[1].ret = "None"
        /\ trial[1].launches = 0
        /\ proxies = <<>>

C29_Witness == pc = "returned" /\ ~xray_exists /\ lines # <<>>


----------------------------------------------------------------------------
(* xray_checker.py: _parse_metrics_and_match_urls (lines 395-478).  lines   *)
(* is what status_pattern finds in the metrics text, tasks_to_process is    *)
(* proxy_info_list, proxies is working_proxy_urls.                          *)

\* xray_proxy_status entries: (address, name, protocol, status)
MetricEntries ==
    {[address |-> "a", name |-> "n", protocol |-> "vless", status |-> "1"],
     [address |-> "a", name |-> "n", protocol |-> "vless", status |-> "0"],
     [address |-> "b", name |-> "", protocol |-> "vless", status |-> "1"],
     [address |-> "c", name |-> "", protocol |-> "shadowsocks", status |-> "1"],
     [address |-> "z", name |-> "m", protocol |-> "ss", status |-> "1"],
     [address |-> "a", name |-> "", protocol |-> "VLESS", status |-> "1"],
     [address |-> "z", name |-> "unknown", protocol |-> "unknown", status |-> "1"],
     [address |-> "z", name |-> "", protocol |-> "trojan", status |-> "1"]}

\* what extract_proxy_info gives; hostport is f"{host}:{port}", "" if the
\* proxy has no host or no port; the last one is the fallback of lines 102-109
ProxyInfos ==
    {[protocol |-> "vless", address |-> "a", hostport |-> "a", name |-> "n", url |-> "u1"],
     [protocol |-> "vless", address |-> "x", hostport |-> "b", name |-> "", url |-> "u2"],
     [protocol |-> "ss", address |-> "c", hostport |-> "", name |-> "m", url |-> "u3"],
     [protocol |-> "vless", address |-> "a", hostport |-> "a", name |-> "n", url |-> "u4"],
     [protocol |-> "unknown", address |-> "unknown", hostport |-> "", name |-> "unknown",
      url |-> "u5"]}

\* lines 481-486: _normalize_protocol
NormalizeProtocol(protocol) ==
    LET lower == IF protocol = "VLESS" THEN "vless" ELSE protocol
    IN  IF lower \in {"ss", "shadowsocks"} THEN "shadowsocks" ELSE lower

\* lines 431-467: one of the four strategies matches the proxy to the entry
Matches(proxy_info, m) ==
    \/ proxy_info.protocol = m.protocol /\ proxy_info.address = m.address
    \/ proxy_info.protocol = m.protocol /\ proxy_info.hostport # ""
                                        /\ proxy_info.hostport = m.address
    \/ proxy_info.name = m.name /\ proxy_info.protocol = m.protocol
                                /\ m.name # "" /\ m.name # "unknown"
    \/ NormalizeProtocol(proxy_info.protocol) = NormalizeProtocol(m.protocol)
           /\ proxy_info.address = m.address

IsWorkingAny(status) == TRUE      \* the same, the status not looked at

IsWorking(status) == status = "1"     \* line 425

RECURSIVE ParseMetricsAndMatch(_, _)
ParseMetricsAndMatch(ms, proxy_info_list) ==    \* the loop of lines 424-476
    IF ms = <<>> THEN <<>>
    ELSE LET m == Head(ms)
             found == {i \in DOMAIN proxy_info_list : Matches(proxy_info_list[i], m)}
             first == CHOOSE i \in found : \A j \in found : i <= j
         IN  (IF IsWorking(m.status) /\ found # {}
              THEN <<proxy_info_list[first].url>> ELSE <<>>)
             \o ParseMetricsAndMatch(Tail(ms), proxy_info_list)

InitMetrics ==
    /\ lines \in SeqsUpTo(MetricEntries, MaxEntries)
    /\ tasks_to_process \in SeqsUpTo(ProxyInfos, MaxEntries)
    /\ TEMPLATE = TemplateHttp
    /\ xray_exists = TRUE
    /\ pc = "metrics"
    /\ max_workers = 0
    /\ batch_num = 0
    /\ submit_i = 0
    /\ batch_completed = 0
    /\ trial = <<>>
    /\ proxies = <<>>
    /\ built_config = NoBuild
    /\ inverted = FALSE
    /\ ProbeIdle

\* _parse_metrics_and_match_urls returns
MatchUrls ==
    /\ pc = "metrics"
    /\ pc' = "matched"
    /\ proxies' = ParseMetricsAndMatch(lines, tasks_to_process)
    /\ UNCHANGED <<trial, checkerRest>>

SpecMetrics == InitMetrics /\ [][MatchUrls]_vars

\* C24: the result has one URL for each entry of status 1 that some proxy
\* of the list matches, in the order of the entries, and each is the URL of
\* a proxy of the list that matches its entry; entries of status 0 and
\* entries no proxy matches give nothing.
C24_OnlyWorkingMatched ==
    pc = "matched" =>
        LET Hit(m) == m.status = "1" /\ \E i \in DOMAIN tasks_to_process :
                                            Matches(tasks_to_process[i], m)
            hits == SelectSeq(lines, Hit)
        IN  /\ Len(proxies) = Len(hits)
            /\ \A n \in DOMAIN proxies :
                   \E i \in DOMAIN tasks_to_process :
                       /\ tasks_to_process[i].url = proxies[n]
                       /\ Matches(tasks_to_process[i], hits[n])

C24_Witness ==
    /\ pc = "matched"
    /\ Len(proxies) = 1
    /\ Len(lines) = 2
    /\ lines[1].status = "0"
    /\ Len(tasks_to_process) = 2


----------------------------------------------------------------------------
(* configs_gen.py and nb/configs_gen.py: add_to_template.  lines is         *)
(* grouped_data (one list of configs per emoji, "ok" with an outbound,      *)
(* "noout" without), batch_num the groups done, built_config the list       *)
(* configs; pc says which file runs: "add" src/configs_gen.py, "add_nb"     *)
(* src/nb/configs_gen.py.                                                   *)

\* template.json of these programs: the "proxy" outbound and two others
TemplateGen ==
    [remarks   |-> 0,
     outbounds |-> <<[tag |-> ProxyWord, server |-> 0],
                     [tag |-> <<"d", "i", "r", "e", "c", "t">>, server |-> 0],
                     [tag |-> <<"b", "l", "o", "c", "k">>, server |-> 0]>>]

\* config["outbounds"][0] of the i-th config of group g
GroupOutbound(g, i) == [tag |-> ProxyWord, server |-> 10 * g + i]

\* lines 116-137 (nb: 135-156): new_outbounds built from `template` for the
\* config list of group g
NewOutbounds(template, g, config_list) ==
    LET NotProxy(ob) == ob.tag # ProxyWord
        IsProxy(ob) == ob.tag = ProxyWord
        base_outbounds == SelectSeq(template.outbounds, NotProxy)
        original_proxy == SubSeq(SelectSeq(template.outbounds, IsProxy), 1, 1)
        Tagged[i \in 0..Len(config_list)] ==
            IF i = 0 THEN <<>>
            ELSE Tagged[i - 1] \o
                 (IF config_list[i] = "ok"
                  THEN <<[GroupOutbound(g, i) EXCEPT !.tag = MakeTag(i)]>> ELSE <<>>)
    IN  original_proxy \o Tagged[Len(config_list)] \o base_outbounds

\* the configuration the i-th element of configs refers to: the module's
\* TEMPLATE, or an object of its own
ConfigAt(i) == IF built_config[i].shared THEN TEMPLATE ELSE built_config[i].val

InitTemplate ==
    /\ AuxIdle
    /\ lines \in SeqsUpTo(SeqsUpTo({"ok", "noout"}, MaxOutbounds) \ {<<>>}, MaxEntries)
    /\ TEMPLATE = TemplateGen
    /\ pc \in {"add", "add_nb"}
    /\ proxies = <<>>
    /\ built_config = <<>>

\* lines 104-105 and one turn of the loop of lines 110-146.  `template` is
\* TEMPLATE itself in src/configs_gen.py (line 112: template = TEMPLATE) and
\* a deep copy in src/nb/configs_gen.py (line 131)
AddGroup ==
    /\ pc \in {"add", "add_nb"}
    /\ IF batch_num = Len(lines)
       THEN /\ pc' = "added"
            /\ UNCHANGED <<TEMPLATE, built_config, batch_num>>
       ELSE LET g == batch_num + 1
                template == [TEMPLATE EXCEPT
                                !.outbounds = NewOutbounds(TEMPLATE, g, lines[g]),
                                !.remarks = g]
            IN  /\ batch_num' = g
                /\ pc' = pc
                /\ IF pc = "add"
                   THEN /\ TEMPLATE' = template
                        /\ built_config' =
                               Append(built_config, [shared |-> TRUE, val |-> TemplateGen])
                   ELSE /\ TEMPLATE' = TEMPLATE
                        /\ built_config' =
                               Append(built_config, [shared |-> FALSE, val |-> template])
    /\ UNCHANGED <<lines, proxies, xray_exists, tasks_to_process, max_workers, submit_i,
                   batch_completed, trial, inverted, probeVars>>

SpecTemplate == InitTemplate /\ [][AddGroup]_vars

\* C25: add_to_template returns one configuration per group; the outbounds
\* of each are the template's "proxy" outbound, then the proxies of that
\* group alone, tagged proxy1..proxyk in order, then the template's other
\* outbounds; TEMPLATE is what was loaded.
C25_GroupConfigsIndependent ==
    pc = "added" =>
        /\ TEMPLATE = TemplateGen
        /\ Len(built_config) = Len(lines)
        /\ \A g \in DOMAIN built_config :
               LET obs == ConfigAt(g).outbounds
                   Has(i) == lines[g][i] = "ok"
                   own == SelectSeq([i \in DOMAIN lines[g] |-> i], Has)
               IN  /\ Len(obs) = Len(own) + Len(TemplateGen.outbounds)
                   /\ obs[1] = TemplateGen.outbounds[1]
                   /\ \A n \in DOMAIN own :
                          obs[n + 1] = [tag |-> MakeTag(n), server |-> 10 * g + own[n]]
                   /\ SubSeq(obs, Len(own) + 2, Len(obs)) = Tail(TemplateGen.outbounds)


\* ---------------------------------------------------------------------
\* src/freesub/configs_gen.py: the merge step of main
\* ---------------------------------------------------------------------

\* out.get("tag", "").startswith("proxy")
IsProxyTag(out) == StartsWith(out.tag, ProxyWord)

\* final_data for the given remarks and tag lists; every outbound is an
\* object of its own, named by its configuration and position
FinalData(rems, tags) ==
    [c \in DOMAIN rems |->
        [remarks   |-> rems[c],
         outbounds |-> [n \in DOMAIN tags[c] |->
                           [tag |-> tags[c][n], server |-> 10 * c + n]]]]

\* lines 214-232: one turn of the loop over final_data
MergeInto(merged_configs, config) ==
    IF \A m \in DOMAIN merged_configs : merged_configs[m].remarks # config.remarks
    THEN Append(merged_configs, config)
    ELSE LET m == CHOOSE m \in DOMAIN merged_configs :
                      merged_configs[m].remarks = config.remarks
             source_proxies == SelectSeq(config.outbounds, IsProxyTag)
         IN  [merged_configs EXCEPT ![m].outbounds = source_proxies \o @]

\* lines 250-253 with the tag of the first proxy numbered as well
RenumberAll(i) == MakeTag(i)

\* lines 250-253: the tag of the i-th proxy, counted from 0
Renumber(i) == IF i = 0 THEN ProxyWord ELSE MakeTag(i)

\* lines 238-256: proxies first, renumbered, then the others
Reordered(config) ==
    LET NotProxyTag(out) == ~IsProxyTag(out)
        found == SelectSeq(config.outbounds, IsProxyTag)
        others == SelectSeq(config.outbounds, NotProxyTag)
    IN  [config EXCEPT
            !.outbounds = [i \in DOMAIN found |->
                              [found[i] EXCEPT !.tag = Renumber(i - 1)]] \o others]

\* final_data before the merge: remarks as replace_flag_with_country left
\* them, outbounds tagged as the original proxy, an IP variation or a static
\* outbound of the template
InitMerge ==
    /\ AuxIdle
    /\ LET MergeRemarks == {"DE", "FI"}
           MergeTags == {ProxyWord, MakeTag(0), <<"d", "i", "r", "e", "c", "t">>}
       IN  \E len \in 0..MaxEntries :
               \E rems \in [1..len -> MergeRemarks] :
                   \E tags \in [1..len -> SeqsUpTo(MergeTags, MaxOutbounds)] :
                       lines = FinalData(rems, tags)
    /\ TEMPLATE = TemplateGen
    /\ pc = "merge"
    /\ proxies = <<>>
    /\ built_config = <<>>

\* lines 211-232: one turn of the loop `for config in final_data`
MergeConfig ==
    /\ pc = "merge"
    /\ batch_num < Len(lines)
    /\ batch_num' = batch_num + 1
    /\ built_config' = MergeInto(built_config, lines[batch_num + 1])
    /\ UNCHANGED <<lines, pc>>
    /\ UNCHANGED <<TEMPLATE, proxies, xray_exists, tasks_to_process, max_workers,
                   submit_i, batch_completed, trial, inverted, probeVars>>

\* lines 235-260: final_data_merged
ReorderTags ==
    /\ pc = "merge"
    /\ batch_num = Len(lines)
    /\ built_config' = [m \in DOMAIN built_config |-> Reordered(built_config[m])]
    /\ pc' = "merged"
    /\ UNCHANGED <<lines, batch_num>>
    /\ UNCHANGED <<TEMPLATE, proxies, xray_exists, tasks_to_process, max_workers,
                   submit_i, batch_completed, trial, inverted, probeVars>>

NextMerge == MergeConfig \/ ReorderTags

SpecMerge == InitMerge /\ [][NextMerge]_vars

\* C26: after the merge step the output holds one configuration per
\* distinct remarks; in each the outbounds tagged proxy... come first,
\* tagged proxy, proxy1, proxy2, ... without a duplicate, then the static
\* outbounds of the first configuration with that remarks in their order;
\* every proxy outbound of every input configuration with that remarks is
\* among them.
C26_MergedAndRenumbered ==
    pc = "merged" =>
        /\ \A a, b \in DOMAIN built_config :
               a # b => built_config[a].remarks # built_config[b].remarks
        /\ {built_config[a].remarks : a \in DOMAIN built_config}
               = {lines[c].remarks : c \in DOMAIN lines}
        /\ \A a \in DOMAIN built_config :
               LET obs == built_config[a].outbounds
                   rem == built_config[a].remarks
                   k == Cardinality({n \in DOMAIN obs : IsProxyTag(obs[n])})
                   first == CHOOSE c \in DOMAIN lines :
                                /\ lines[c].remarks = rem
                                /\ \A d \in 1..(c - 1) : lines[d].remarks # rem
                   Static(out) == ~IsProxyTag(out)
                   inputs == UNION {{lines[c].outbounds[n].server :
                                         n \in {j \in DOMAIN lines[c].outbounds :
                                                    IsProxyTag(lines[c].outbounds[j])}} :
                                     c \in {d \in DOMAIN lines : lines[d].remarks = rem}}
               IN  /\ \A n \in 1..k :
                          obs[n].tag = IF n = 1 THEN ProxyWord
                                       ELSE ProxyWord \o IntToStr(n - 1)
                   /\ \A n, m \in 1..k : n # m => obs[n].tag # obs[m].tag
                   /\ SubSeq(obs, k + 1, Len(obs))
                          = SelectSeq(lines[first].outbounds, Static)
                   /\ k = Cardinality(inputs)
                   /\ {obs[n].server : n \in 1..k} = inputs

\* two configurations with the same remarks were merged into one with
\* three proxies and a static outbound
C26_Witness ==
    /\ pc = "merged"
    /\ Len(built_config) < Len(lines)
    /\ \E a \in DOMAIN built_config :
           /\ Len(built_config[a].outbounds) >= 4
           /\ ~IsProxyTag(built_config[a].outbounds[4])
           /\ IsProxyTag(built_config[a].outbounds[3])


\* ---------------------------------------------------------------------
\* src/begz/decrypt_script.py: fetch_and_decrypt, decrypt_chacha20, main
\* ---------------------------------------------------------------------

\* 'Error', the prefix main looks for (line 248)
ErrorWord == <<"E", "r", "r", "o", "r">>

\* the string each return statement of decrypt_chacha20 (line 84) and
\* fetch_and_decrypt (lines 99, 102, 117, 142-148) yields, up to the text of
\* the exception
Message(outcome) ==
    CASE outcome = "api_url_unset"     -> ErrorWord \o <<":", " ", "A", "P", "I">>
      [] outcome = "decrypt_key_unset" -> ErrorWord \o <<":", " ", "D", "E", "C">>
      [] outcome = "status_false"      -> <<"A", "P", "I", " ", "r", "e", "t">>
      [] outcome = "request_error"     -> <<"R", "e", "q", "u", "e", "s", "t">>
      [] outcome = "json_error"        -> <<"J", "S", "O", "N", " ", "d", "e">>
      [] outcome = "missing_key"       -> <<"M", "i", "s", "s", "i", "n", "g">>
      [] outcome = "unexpected"        -> <<"U", "n", "e", "x", "p", "e", "c">>
      [] outcome = "decryption_error"  -> ErrorWord \o <<" ", "d", "u", "r", "i">>

\* the environment, the API's answer, whether the ciphertext decrypts, the
\* plaintext, and whether configs.txt can be written
InitDecrypt ==
    /\ AuxIdle
    /\ lines \in [api_url     : BOOLEAN,
                  decrypt_key : BOOLEAN,
                  response    : {"ok", "RequestException", "JSONDecodeError",
                                 "status_false", "KeyError", "Exception"},
                  authentic   : BOOLEAN,
                  plain       : {<<>>, <<"v", "l", "e", "s", "s", ":">>,
                                 ErrorWord \o <<"s">>},
                  writable    : BOOLEAN]
    /\ TEMPLATE = TemplateGen
    /\ pc = "fetch"
    /\ proxies = <<>>
    /\ built_config = [outcome |-> "none", report |-> "none"]

\* fetch_and_decrypt up to the call of decrypt_chacha20 (lines 93-134) and
\* its handlers (lines 141-148).  response.json() of a body that is not JSON
\* raises requests' JSONDecodeError, a RequestException in the releases
\* where it derives from InvalidJSONError and a plain json error otherwise
FetchAndDecrypt ==
    /\ pc = "fetch"
    /\ \E outcome \in
           IF ~lines.api_url THEN {"api_url_unset"}
           ELSE IF ~lines.decrypt_key THEN {"decrypt_key_unset"}
           ELSE CASE lines.response = "RequestException" -> {"request_error"}
                  [] lines.response = "JSONDecodeError"  -> {"request_error", "json_error"}
                  [] lines.response = "status_false"     -> {"status_false"}
                  [] lines.response = "KeyError"         -> {"missing_key"}
                  [] lines.response = "Exception"        -> {"unexpected"}
                  [] lines.response = "ok"               -> {"none"} :
           IF outcome = "none"
           THEN /\ pc' = "decrypt"
                /\ UNCHANGED <<proxies, built_config>>
           ELSE /\ pc' = "write"
                /\ proxies' = Message(outcome)
                /\ built_config' = [built_config EXCEPT !.outcome = outcome]
    /\ UNCHANGED <<lines, TEMPLATE, auxVars>>

\* decrypt_chacha20 (lines 41-84) and the return of line 139
DecryptChacha20 ==
    /\ pc = "decrypt"
    /\ pc' = "write"
    /\ IF lines.authentic
       THEN /\ proxies' = lines.plain
            /\ built_config' = [built_config EXCEPT !.outcome = "decrypted"]
       ELSE /\ proxies' = Message("decryption_error")
            /\ built_config' = [built_config EXCEPT !.outcome = "decryption_error"]
    /\ UNCHANGED <<lines, TEMPLATE, auxVars>>

\* main, lines 242-256: the result is written and then judged by its prefix
MainReport ==
    /\ pc = "write"
    /\ lines.writable
    /\ pc' = "reported"
    /\ built_config' = [built_config EXCEPT
                           !.report = IF ~StartsWith(proxies, ErrorWord)
                                      THEN "data" ELSE "failed"]
    /\ UNCHANGED <<lines, TEMPLATE, proxies, auxVars>>

\* main, lines 260-261: configs.txt cannot be written
MainWriteError ==
    /\ pc = "write"
    /\ ~lines.writable
    /\ pc' = "write_error"
    /\ UNCHANGED <<lines, TEMPLATE, proxies, built_config, auxVars>>

NextDecrypt == FetchAndDecrypt \/ DecryptChacha20 \/ MainReport \/ MainWriteError

SpecDecrypt == InitDecrypt /\ [][NextDecrypt]_vars

\* C30: when main has judged the result, it reports a failure for every
\* error outcome of fetch_and_decrypt and decrypt_chacha20, and shows the
\* result as decrypted data only when fetch and decryption both succeeded.
C30_ErrorsRecognised ==
    pc = "reported" =>
        /\ built_config.outcome # "decrypted" => built_config.report = "failed"
        /\ built_config.report = "data" => built_config.outcome = "decrypted"

====
